---- MODULE Spec2Model ----
(***************************************************************************)
(* NPPData (src/population/nppdata.py): the variant store, the cache       *)
(* directory, the download / extract / parse / normalise pipeline of       *)
(* __load_variant and the query methods detail, aggregate, variant_ratio.  *)
(*                                                                         *)
(* A pandas cell is modelled with its type: text read from the XML stays   *)
(* text until a CSV round trip (to_csv, read_csv) turns a column whose     *)
(* every entry is a numeral into integers.                                 *)
(***************************************************************************)
EXTENDS Integers, Sequences, FiniteSets, TLC

(* ------------------------------ bounds -------------------------------- *)
\* projection years held by the published data: FirstYear .. FirstYear+NumYears-1
NumYears == 2
\* the age axis of the published data is sampled: the youngest AgeWindow ages,
\* the ages within AgeWindow of the terminal age, and the last single age
AgeWindow == 1
\* largest value of one published cell
MaxCell == 9

(* ------------------------- program constants -------------------------- *)
FirstYear == 2016
TerminalAge == 90
LastSingleAge == 104
MinCAge == 1
MaxCAge == 105

CODES == [en |-> "E92000001", wa |-> "W92000004", sc |-> "S92000003", ni |-> "N92000002"]
EW == <<"en", "wa">>
GB == <<"en", "wa", "sc">>
UK == <<"en", "wa", "sc", "ni">>
VARIANTS == {"hhh", "hpp", "lll", "lpp", "php", "pjp", "pkp", "plp", "pph", "ppl",
             "ppp", "ppq", "ppr", "pps", "ppz"}
\* the keys of the datasets dictionary, in its order
datasets == <<"en", "wa", "sc", "ni">>
DefaultAges == 0 .. TerminalAge
DefaultGenders == {1, 2}
\* a list that stops one age short (a mutant of a)
a_Short == {ToString(n) : n \in TerminalAge .. (LastSingleAge - 1)} \cup {"105 - 109", "110 and over"}
\* the age categories aggregated into the terminal bucket
a == {ToString(n) : n \in TerminalAge .. LastSingleAge} \cup {"105 - 109", "110 and over"}

(* ----------------------------- helpers -------------------------------- *)
Range(s) == {s[i] : i \in DOMAIN s}

RECURSIVE SumSeq(_)
SumSeq(s) == IF s = <<>> THEN 0 ELSE Head(s) + SumSeq(Tail(s))

RECURSIVE Flatten(_)
Flatten(ss) == IF ss = <<>> THEN <<>> ELSE Head(ss) \o Flatten(Tail(ss))

RECURSIVE SetToSortedSeq(_)
SetToSortedSeq(S) ==
  IF S = {} THEN <<>>
  ELSE LET m == CHOOSE x \in S : \A y \in S : x <= y
       IN  <<m>> \o SetToSortedSeq(S \ {m})

(* ------------------------------- cells -------------------------------- *)
Str(s) == [t |-> "str", s |-> s, i |-> 0]
Num(n) == [t |-> "int", s |-> "", i |-> n]

Years == FirstYear .. (FirstYear + NumYears - 1)
SampledAges == {n \in 0 .. LastSingleAge :
                  \/ n < AgeWindow
                  \/ (n >= TerminalAge - AgeWindow /\ n <= TerminalAge + AgeWindow)
                  \/ n = LastSingleAge}
\* the integers whose decimal text occurs in a file of the cache: ages, years,
\* cell values and their sums
Numerals == (0 .. LastSingleAge) \cup (0 .. (MaxCell * (Cardinality(SampledAges) + 2))) \cup Years
NumeralOf == [s \in {ToString(n) : n \in Numerals} |-> CHOOSE n \in Numerals : ToString(n) = s]
IsNumeral(s) == s \in DOMAIN NumeralOf
ParseInt(s) == NumeralOf[s]

\* DataFrame.to_csv: a cell as text
CsvText(c) == IF c.t = "int" THEN ToString(c.i) ELSE c.s
to_csv(df) == [r \in DOMAIN df |-> [col \in DOMAIN df[r] |-> CsvText(df[r][col])]]
\* pandas.read_csv: a column whose every entry is a numeral is read as integers
NumericColumns(body) ==
  IF body = <<>> THEN {}
  ELSE {col \in DOMAIN body[1] : \A r \in DOMAIN body : IsNumeral(body[r][col])}
Typed(body, numeric) ==
  [r \in DOMAIN body |->
     [col \in DOMAIN body[r] |->
        IF col \in numeric THEN Num(ParseInt(body[r][col])) ELSE Str(body[r][col])]]
read_csv(body) == Typed(body, NumericColumns(body))

(* ------------------------ the published data -------------------------- *)
\* The archives and the statistical API are external; their content is a fixed
\* sample in which neighbouring cells differ.
GeoIndex(g) == CHOOSE k \in DOMAIN datasets : datasets[k] = g
VariantWeight(v) == CASE v = "ppp" -> 1 [] v = "hhh" -> 2 [] v = "ppl" -> 4 [] OTHER -> 7
AgeAxis == SetToSortedSeq(SampledAges)
AgeLabels == [k \in DOMAIN AgeAxis |-> ToString(AgeAxis[k])] \o <<"105 - 109", "110 and over">>
PublishedValue(v, g, sex, k, y) ==
  1 + ((VariantWeight(v) * k + 2 * GeoIndex(g) + 3 * sex + 7 * (y - FirstYear)) % MaxCell)
\* the source pads some age labels
PaddedLabel(k) == CASE k % 3 = 1 -> AgeLabels[k] \o " "
                    [] k % 3 = 2 -> " " \o AgeLabels[k] \o " "
                    [] OTHER -> AgeLabels[k]
Cell(text) == [data |-> TRUE, text |-> text]
EmptyCell == [data |-> FALSE, text |-> ""]
PopulationRows(g, v) ==
  <<  <<Cell("Sex"), Cell("Age")>> \o [j \in 1 .. NumYears |-> Cell(ToString(FirstYear + j - 1))]  >>
  \o Flatten([sex \in 1 .. 2 |->
       [k \in DOMAIN AgeLabels |->
          <<Cell(ToString(sex)), Cell(PaddedLabel(k))>> \o
          [j \in 1 .. NumYears |-> Cell(ToString(PublishedValue(v, g, sex, k, FirstYear + j - 1)))]]])
\* {g}_{v}_opendata2016.xml: a workbook of named worksheets
Document(g, v) ==
  << [name |-> "Contents", rows |-> << <<Cell("2016-based"), EmptyCell, Cell(g)>>, <<EmptyCell>> >>],
     [name |-> "Population", rows |-> PopulationRows(g, v)] >>

(* --------------------------- worksheet parser -------------------------- *)
\* _read_excel_xml: the rows of the worksheets named sheet_name, each row the
\* texts of its cells that hold data
_read_excel_xml(doc, sheet_name) ==
  Flatten([s \in DOMAIN doc |->
     IF doc[s].name = sheet_name
     THEN [r \in DOMAIN doc[s].rows |->
             LET cells == SelectSeq(doc[s].rows[r], LAMBDA c : c.data)
             IN  [c \in DOMAIN cells |-> cells[c].text]]
     ELSE <<>>])

(* ------------------------------ normaliser ----------------------------- *)
\* str.strip on an age label
Strip(s) ==
  LET hit(t) == \E l \in {"", " "}, r \in {"", " "} : s = l \o t \o r
  IN  IF \E t \in Range(AgeLabels) : hit(t) THEN CHOOSE t \in Range(AgeLabels) : hit(t) ELSE s

\* DataFrame(data=variant[1:,0:], columns=variant[0,0:])
\*   .set_index(["Sex", "Age"]).stack().reset_index(), Age stripped, columns renamed
Stack(worksheet) ==
  LET header == worksheet[1]
      sexCol == CHOOSE c \in DOMAIN header : header[c] = "Sex"
      ageCol == CHOOSE c \in DOMAIN header : header[c] = "Age"
      valueCols == SelectSeq([c \in DOMAIN header |-> c], LAMBDA c : c # sexCol /\ c # ageCol)
  IN  Flatten([r \in 1 .. (Len(worksheet) - 1) |->
        [j \in DOMAIN valueCols |->
           [GENDER |-> Str(worksheet[r + 1][sexCol]),
            C_AGE |-> Str(Strip(worksheet[r + 1][ageCol])),
            PROJECTED_YEAR_NAME |-> Str(header[valueCols[j]]),
            OBS_VALUE |-> Str(worksheet[r + 1][valueCols[j]])]]])

\* lexicographic order of the group keys <<gender, year>>
RECURSIVE SortKeys(_)
SortKeys(K) ==
  IF K = {} THEN <<>>
  ELSE LET m == CHOOSE x \in K : \A y \in K : x[1] < y[1] \/ (x[1] = y[1] /\ x[2] <= y[2])
       IN  <<m>> \o SortKeys(K \ {m})

\* the sum of OBS_VALUE over the rows of one (gender, year) group
GroupTotal(dfagg, key) ==
  SumSeq([r \in DOMAIN dfagg |->
            IF dfagg[r].GENDER.i = key[1] /\ dfagg[r].PROJECTED_YEAR_NAME.i = key[2]
            THEN dfagg[r].OBS_VALUE.i ELSE 0])
GroupRows(dfagg, keys) ==
  [n \in DOMAIN keys |->
     [GENDER |-> Num(keys[n][1]),
      PROJECTED_YEAR_NAME |-> Num(keys[n][2]),
      OBS_VALUE |-> Num(GroupTotal(dfagg, keys[n])),
      C_AGE |-> Str(ToString(TerminalAge))]]
\* dfagg.groupby(["GENDER", "PROJECTED_YEAR_NAME"])["OBS_VALUE"].sum().reset_index()
\* on the frame read back from tmp.csv; then dfagg["C_AGE"] = "90"
GroupSum(dfagg) ==
  GroupRows(dfagg, SortKeys({<<dfagg[r].GENDER.i, dfagg[r].PROJECTED_YEAR_NAME.i>> : r \in DOMAIN dfagg}))

\* the rows written to tmp.csv: df[df.C_AGE.isin(a)]
TerminalRows(df) == SelectSeq(df, LAMBDA row : row.C_AGE.s \in a)

\* df["GEOGRAPHY_CODE"] = NPPData.CODES[country]
Tag(df, country) ==
  [r \in DOMAIN df |->
     [GENDER |-> df[r].GENDER, C_AGE |-> df[r].C_AGE,
      PROJECTED_YEAR_NAME |-> df[r].PROJECTED_YEAR_NAME,
      OBS_VALUE |-> df[r].OBS_VALUE,
      GEOGRAPHY_CODE |-> Str(CODES[country])]]

\* lines 219-240: collapse the terminal categories and tag the geography
Collapse(df, country) ==
  Tag(SelectSeq(df, LAMBDA row : ~(row.C_AGE.s \in a))
        \o GroupSum(read_csv(to_csv(TerminalRows(df)))),
      country)


(* --------------------------- principal loader -------------------------- *)
\* Nomisweb.get_data("NM_2009_1", query_params): one row per geography, projected
\* year, gender and c_age asked for; the row order is the service's
ApiOrders == {"geography,gender,age,year", "geography,year,gender,age"}
get_data(order) ==
  LET ages == SelectSeq([n \in 1 .. (MaxCAge - MinCAge + 1) |-> MinCAge + n - 1],
                        LAMBDA c : (c - 1) \in SampledAges)
      ordinal(c) == CHOOSE k \in DOMAIN AgeAxis : AgeAxis[k] = c - 1
      row(g, y, sex, c) ==
        [GEOGRAPHY_CODE |-> Str(CODES[g]), PROJECTED_YEAR_NAME |-> Num(y),
         GENDER |-> Num(sex), C_AGE |-> Num(c),
         OBS_VALUE |-> Num(PublishedValue("ppp", g, sex, ordinal(c), y))]
      years == [j \in 1 .. NumYears |-> FirstYear + j - 1]
  IN  Flatten([n \in DOMAIN datasets |->
        IF order = "geography,gender,age,year"
        THEN Flatten([sex \in 1 .. 2 |-> Flatten([c \in DOMAIN ages |->
               [j \in DOMAIN years |-> row(datasets[n], years[j], sex, ages[c])]])])
        ELSE Flatten([j \in DOMAIN years |-> Flatten([sex \in 1 .. 2 |->
               [c \in DOMAIN ages |-> row(datasets[n], years[j], sex, ages[c])]])])])

\* __download_ppp: ppp.C_AGE = ppp.C_AGE - 1
download_ppp(order) ==
  LET ppp == get_data(order)
  IN  [r \in DOMAIN ppp |-> [ppp[r] EXCEPT !.C_AGE = Num(ppp[r].C_AGE.i - 1)]]

(* ------------------------------ the cache ------------------------------ *)
Zip(country) == "npp_" \o country \o ".zip"
Xml(country, variant) == country \o "_" \o variant \o "_opendata2016.xml"
Csv(variant) == "npp_" \o variant \o ".csv"
tmpfile == "tmp.csv"
\* a file: whole is FALSE when its content is not the complete output of its stage
File(whole, rows) == [whole |-> whole, rows |-> rows]
isfile(disk, f) == f \in DOMAIN disk
Write(disk, f, file) == [g \in DOMAIN disk \cup {f} |-> IF g = f THEN file ELSE disk[g]]
Event(op, f) == [op |-> op, file |-> f]

\* what the environment does to one load: nothing; or, for one country's
\* archive, requests.get raises (fetch: no connection, or the connection drops
\* while get reads the body, line 189), a body that is no archive arrives
\* without an exception (body: a shortened body, an error page), fd.write
\* raises after the file was opened (write: line 192); or an archive lacks the
\* wanted document (extract, line 203)
NoFault == [kind |-> "none", country |-> ""]
Fault(kind, country) == [kind |-> kind, country |-> country]

(* ----------------------------- __load_variant -------------------------- *)
\* The state of one call: the store, the cache, the operations done so far, the
\* normaliser's last input and output, the exception raised (if any), and the
\* local name variant: the code while it is a string and, from line 205 on, the
\* parsed array.
NoNorm == [ran |-> FALSE, before |-> <<>>, after |-> <<>>]
NewRun(data, disk, variant) ==
  [data |-> data, disk |-> disk, io |-> <<>>, norm |-> NoNorm, error |-> "",
   variant |-> [array |-> FALSE, code |-> variant]]
Fail(st, error) == [st EXCEPT !.error = error]
Put(data, v, frame) == [w \in DOMAIN data \cup {v} |-> IF w = v THEN frame ELSE data[w]]

\* step 1 without the isfile test (a mutant of Download)
RECURSIVE Download_Always(_, _, _)
Download_Always(st, k, fault) ==
  IF k > Len(datasets) THEN st
  ELSE IF fault = Fault("fetch", datasets[k])
       THEN [st EXCEPT !.error = "FetchError",
                       !.io = Append(@, Event("get", Zip(datasets[k])))]
  ELSE IF fault = Fault("write", datasets[k])
       THEN [st EXCEPT !.error = "OSError",
                       !.disk = Write(@, Zip(datasets[k]), File(FALSE, <<>>)),
                       !.io = Append(@, Event("get", Zip(datasets[k])))]
  ELSE Download_Always([st EXCEPT !.disk = Write(@, Zip(datasets[k]),
                                           File(fault # Fault("body", datasets[k]), <<>>)),
                            !.io = Append(@, Event("get", Zip(datasets[k])))],
              k + 1, fault)

\* step 1, lines 185-194: download each country's archive unless it is a file
RECURSIVE Download(_, _, _)
Download(st, k, fault) ==
  IF k > Len(datasets) THEN st
  ELSE IF isfile(st.disk, Zip(datasets[k])) THEN Download(st, k + 1, fault)
  ELSE IF fault = Fault("fetch", datasets[k])
       THEN [st EXCEPT !.error = "FetchError",
                       !.io = Append(@, Event("get", Zip(datasets[k])))]
  ELSE IF fault = Fault("write", datasets[k])
       THEN [st EXCEPT !.error = "OSError",
                       !.disk = Write(@, Zip(datasets[k]), File(FALSE, <<>>)),
                       !.io = Append(@, Event("get", Zip(datasets[k])))]
  ELSE Download([st EXCEPT !.disk = Write(@, Zip(datasets[k]),
                                           File(fault # Fault("body", datasets[k]), <<>>)),
                            !.io = Append(@, Event("get", Zip(datasets[k])))],
              k + 1, fault)

\* line 198: zipfile.ZipFile(raw_zip); a file that is no complete archive raises BadZipFile
OpenZip(st, country) ==
  IF st.disk[Zip(country)].whole
  THEN [st EXCEPT !.io = Append(@, Event("open", Zip(country)))]
  ELSE [st EXCEPT !.io = Append(@, Event("open", Zip(country))), !.error = "BadZipFile"]

\* lines 201-203: extract the document unless it is a file
Extract(st, country, fault) ==
  IF st.error # "" THEN st
  ELSE IF st.variant.array THEN Fail(st, "TypeError")
  ELSE IF isfile(st.disk, Xml(country, st.variant.code)) THEN st
  ELSE IF fault = Fault("extract", country) THEN Fail(st, "ExtractError")
  ELSE [st EXCEPT !.disk = Write(@, Xml(country, st.variant.code), File(TRUE, <<>>)),
                  !.io = Append(@, Event("extract", Xml(country, st.variant.code)))]

\* lines 205-212: variant = np.array(_read_excel_xml(...)), reshaped
Parse(st, country) ==
  IF st.error # "" THEN st
  ELSE [st EXCEPT
          !.variant = [array |-> TRUE, code |-> ""],
          !.io = Append(@, Event("parse", Xml(country, st.variant.code))),
          !.norm = [ran |-> FALSE, after |-> <<>>,
                    before |-> Stack(_read_excel_xml(Document(country, st.variant.code), "Population"))]]

\* lines 216-240: tmp.csv written and read back, the terminal categories collapsed
Reshape(st, country) ==
  IF st.error # "" THEN st
  ELSE [st EXCEPT
          !.disk = Write(@, tmpfile, File(TRUE, to_csv(TerminalRows(st.norm.before)))),
          !.io = @ \o <<Event("write", tmpfile), Event("read", tmpfile)>>,
          !.norm = [ran |-> TRUE, before |-> st.norm.before,
                    after |-> Collapse(st.norm.before, country)]]

\* line 243: self.data[variant] = self.data[variant].append(df); an array is
\* no dictionary key
AppendFrame(st) ==
  IF st.error # "" THEN st
  ELSE IF st.variant.array THEN Fail(st, "TypeError")
  ELSE [st EXCEPT !.data[st.variant.code] = @ \o st.norm.after]

\* step 2, lines 196-243: one pass per country
RECURSIVE Collate(_, _, _)
Collate(st, k, fault) ==
  IF k > Len(datasets) \/ st.error # "" THEN st
  ELSE Collate(AppendFrame(Reshape(Parse(Extract(OpenZip(st, datasets[k]), datasets[k], fault),
                                         datasets[k]), datasets[k])),
               k + 1, fault)

\* step 3, line 246: self.data[variant].to_csv(dataset)
Persist(st, dataset) ==
  IF st.error # "" THEN st
  ELSE IF st.variant.array THEN Fail(st, "TypeError")
  ELSE [st EXCEPT !.disk = Write(@, dataset, File(TRUE, to_csv(st.data[st.variant.code]))),
                  !.io = Append(@, Event("write", dataset))]

\* line 248: self.data[variant] = pd.read_csv(dataset)
Reload(st, dataset) ==
  IF st.error # "" THEN st
  ELSE IF st.variant.array THEN Fail(st, "TypeError")
  ELSE [st EXCEPT !.data = Put(@, st.variant.code, read_csv(st.disk[dataset].rows)),
                  !.io = Append(@, Event("read", dataset))]

\* line 182: self.data[variant] = pd.DataFrame()
Begin(st) == [st EXCEPT !.data = Put(@, st.variant.code, <<>>)]

load_variant(data, disk, variant, fault) ==
  IF isfile(disk, Csv(variant)) THEN Reload(NewRun(data, disk, variant), Csv(variant))
  ELSE Reload(Persist(Collate(Download(Begin(NewRun(data, disk, variant)), 1, fault), 1, fault),
                      Csv(variant)),
              Csv(variant))

(* ----------------------------- query engine ---------------------------- *)
\* Series.isin on a column
isin(cell, S) == cell.t = "int" /\ cell.i \in S
\* years=None, or a list of years
None == [none |-> TRUE, set |-> {}]
Some(S) == [none |-> FALSE, set |-> S]

YearsOf(frame) == {frame[r].PROJECTED_YEAR_NAME.i : r \in DOMAIN frame}
Least(S) == CHOOSE y \in S : \A z \in S : y <= z
Greatest(S) == CHOOSE y \in S : \A z \in S : y >= z
min_year(data) == Least(YearsOf(data["ppp"]))
max_year(data) == Greatest(YearsOf(data["ppp"]))
\* a range that keeps its upper end (a mutant of range)
range_Inclusive(lo, hi) == lo .. hi
\* range(lo, hi)
range(lo, hi) == lo .. (hi - 1)

CodesOf(geog) == {CODES[geog[n]] : n \in DOMAIN geog}
\* lines 108-111: the rows that pass the four filters, in the table's order
Filter(frame, geog_codes, years, ages, genders) ==
  SelectSeq(frame, LAMBDA row :
    /\ row.GEOGRAPHY_CODE.s \in geog_codes
    /\ isin(row.PROJECTED_YEAR_NAME, years)
    /\ isin(row.C_AGE, ages)
    /\ isin(row.GENDER, genders))

Outcome(st, error, table) ==
  [data |-> st.data, disk |-> st.disk, io |-> st.io, norm |-> st.norm,
   error |-> error, table |-> table]

\* lines 106-111 on the store the load left; pd.DataFrame() has no columns
Select(st, variant_name, geog, years, ages, genders) ==
  IF st.error # "" THEN Outcome(st, st.error, <<>>)
  ELSE IF st.data[variant_name] = <<>> THEN Outcome(st, "AttributeError", <<>>)
  ELSE Outcome(st, "", Filter(st.data[variant_name], CodesOf(geog), years, ages, genders))

\* lines 98-100
YearsOrDefault(data, years) ==
  IF years.none THEN range(min_year(data), max_year(data)) ELSE years.set

\* lines 102-103
Loaded(data, disk, variant_name, fault) ==
  IF variant_name \notin DOMAIN data THEN load_variant(data, disk, variant_name, fault)
  ELSE NewRun(data, disk, variant_name)

\* detail without the test of the variant name (a mutant of detail)
detail_Unchecked(data, disk, variant_name, geog, years, ages, genders, fault) ==
  Select(Loaded(data, disk, variant_name, fault), variant_name, geog,
         YearsOrDefault(data, years), ages, genders)

detail(data, disk, variant_name, geog, years, ages, genders, fault) ==
  IF variant_name \notin VARIANTS
  THEN Outcome(NewRun(data, disk, variant_name), "RuntimeError", <<>>)
  ELSE Select(Loaded(data, disk, variant_name, fault), variant_name, geog,
              YearsOrDefault(data, years), ages, genders)

\* the sort order of a column's values
SortedCodes == <<"E92000001", "N92000002", "S92000003", "W92000004">>
Rank(cell) == IF cell.t = "int" THEN cell.i ELSE CHOOSE k \in DOMAIN SortedCodes : SortedCodes[k] = cell.s
RECURSIVE LexLeq(_, _)
LexLeq(x, y) ==
  IF x = <<>> THEN TRUE
  ELSE \/ Rank(Head(x)) < Rank(Head(y))
       \/ (Rank(Head(x)) = Rank(Head(y)) /\ LexLeq(Tail(x), Tail(y)))
RECURSIVE SortGroups(_)
SortGroups(K) ==
  IF K = {} THEN <<>>
  ELSE LET m == CHOOSE x \in K : \A y \in K : LexLeq(x, y)
       IN  <<m>> \o SortGroups(K \ {m})

KeyOf(row, categories) == [n \in DOMAIN categories |-> row[categories[n]]]
KeyTotal(frame, categories, k) ==
  SumSeq([r \in DOMAIN frame |-> IF KeyOf(frame[r], categories) = k THEN frame[r].OBS_VALUE.i ELSE 0])
KeyRows(frame, categories, keys) ==
  [n \in DOMAIN keys |->
     [col \in Range(categories) \cup {"OBS_VALUE"} |->
        IF col = "OBS_VALUE" THEN Num(KeyTotal(frame, categories, keys[n]))
        ELSE keys[n][CHOOSE c \in DOMAIN categories : categories[c] = col]]]
\* data.groupby(categories)["OBS_VALUE"].sum().reset_index()
groupby_sum(frame, categories) ==
  KeyRows(frame, categories, SortGroups({KeyOf(frame[r], categories) : r \in DOMAIN frame}))

\* lines 121-123
WithYear(categories) ==
  IF "PROJECTED_YEAR_NAME" \in Range(categories) THEN categories
  ELSE Append(categories, "PROJECTED_YEAR_NAME")
Grouped(d, categories) ==
  IF d.error # "" THEN d ELSE [d EXCEPT !.table = groupby_sum(@, WithYear(categories))]
\* categories is the list the caller gave (a single name is wrapped, lines 119-120)
aggregate(data, disk, categories, variant_name, geog, years, ages, genders, fault) ==
  Grouped(detail(data, disk, variant_name, geog, years, ages, genders, fault), categories)

\* num.OBS_VALUE / ref.OBS_VALUE: the two columns are divided label by label, and
\* after reset_index the label of a row is its position
Ratio(n, d) == [t |-> "float", s |-> "", i |-> n, d |-> d]
NaN == [t |-> "nan", s |-> "", i |-> 0, d |-> 0]
\* the division the other way round (a mutant of Divide)
Divide_Swapped(num, ref) ==
  [r \in DOMAIN num |->
     [num[r] EXCEPT !.OBS_VALUE =
        IF r \in DOMAIN ref THEN Ratio(ref[r].OBS_VALUE.i, num[r].OBS_VALUE.i) ELSE NaN]]
Divide(num, ref) ==
  [r \in DOMAIN num |->
     [num[r] EXCEPT !.OBS_VALUE =
        IF r \in DOMAIN ref THEN Ratio(num[r].OBS_VALUE.i, ref[r].OBS_VALUE.i) ELSE NaN]]
\* the second of two detail calls made by one method: its operations follow
\* the first's
After(ref, num) ==
  [num EXCEPT !.io = ref.io \o @, !.norm = IF @.ran THEN @ ELSE ref.norm]
Divided(num, ref) ==
  IF num.error # "" THEN After(ref, num)
  ELSE [After(ref, num) EXCEPT !.table = Divide(@, ref.table)]
RatioTo(ref, variant_numerator, geog, years, ages, genders, fault) ==
  IF ref.error # "" THEN ref
  ELSE Divided(detail(ref.data, ref.disk, variant_numerator, geog, years, ages, genders, fault), ref)
\* lines 126-134: ref and num are slices of the same variant
year_ratio(data, disk, variant_name, geog, ref_year, year, ages, genders, fault) ==
  RatioTo(detail(data, disk, variant_name, geog, Some({ref_year}), ages, genders, fault),
          variant_name, geog, Some({year}), ages, genders, fault)
\* lines 136-144: ref is the slice of the principal variant
variant_ratio(data, disk, variant_numerator, geog, years, ages, genders, fault) ==
  RatioTo(detail(data, disk, "ppp", geog, years, ages, genders, fault),
          variant_numerator, geog, years, ages, genders, fault)

(* --------------------------- the state machine ------------------------- *)
VARIABLES
  data,    \* self.data: variant code -> table
  disk,    \* the cache directory: file name -> file
  call,    \* the last call and its arguments
  result,  \* what the last call returned or raised
  io,      \* the network and file operations of the last call, in order
  norm     \* the normaliser's input and output in the last call
vars == <<data, disk, call, result, io, norm>>

\* The cache directory is the constructor's argument (line 70) and outlives
\* the process. It is empty, or it already holds a file npp_{v}.csv, which
\* lines 180 and 248 look for and read. Such a file is an input: no run of
\* __load_variant writes it (line 243 raises before line 246). It is a table
\* with the columns detail filters on (lines 108-111), one record per
\* geography, year, gender and age up to the terminal age, in one of the
\* row orders below.
EmptyCache == <<>>
SuppliedOrders == {"geography,gender,age,year", "geography,year,gender,age"}
SuppliedCsv(v, order) ==
  LET ages == SetToSortedSeq(SampledAges \cap (0 .. TerminalAge))
      ordinal(n) == CHOOSE k \in DOMAIN AgeAxis : AgeAxis[k] = n
      row(g, y, sex, n) ==
        [GEOGRAPHY_CODE |-> Str(CODES[g]), PROJECTED_YEAR_NAME |-> Num(y),
         GENDER |-> Num(sex), C_AGE |-> Num(n),
         OBS_VALUE |-> Num(PublishedValue(v, g, sex, ordinal(n), y))]
      years == [j \in 1 .. NumYears |-> FirstYear + j - 1]
  IN  to_csv(Flatten([n \in DOMAIN datasets |->
        IF order = "geography,gender,age,year"
        THEN Flatten([sex \in 1 .. 2 |-> Flatten([c \in DOMAIN ages |->
               [j \in DOMAIN years |-> row(datasets[n], years[j], sex, ages[c])]])])
        ELSE Flatten([j \in DOMAIN years |-> Flatten([sex \in 1 .. 2 |->
               [c \in DOMAIN ages |-> row(datasets[n], years[j], sex, ages[c])]])])]))
SuppliedCache(v, order) == Write(EmptyCache, Csv(v), File(TRUE, SuppliedCsv(v, order)))
InitialCaches == {EmptyCache} \cup {SuppliedCache("hhh", order) : order \in SuppliedOrders}

QueryVariants == {"ppp", "hhh"}
\* codes outside VARIANTS
UnknownCodes == {"zzz", "hlh"}
FaultCountries == {"en", "wa"}
Faults == {NoFault} \cup {Fault(k, c) : k \in {"fetch", "body", "write", "extract"}, c \in FaultCountries}
Selection(geog, years, ages, genders) == [geog |-> geog, years |-> years, ages |-> ages, genders |-> genders]
LoadSelections == {Selection(EW, None, DefaultAges, DefaultGenders),
                   Selection(UK, Some({FirstYear}), {0}, {1})}
QuerySelections ==
  {Selection(g, y, ages, DefaultGenders) :
     g \in {EW, UK}, y \in {None, Some({FirstYear})},
     ages \in {DefaultAges, {0, TerminalAge}}}
  \cup {Selection(<<"en">>, Some(Years), {0, TerminalAge}, {1}),
        Selection(GB, Some(Years), {0}, DefaultGenders),
        Selection(UK, None, {TerminalAge - 1}, {2})}
CategoryChoices == {<<"GEOGRAPHY_CODE">>, <<"GENDER", "PROJECTED_YEAR_NAME">>}

Call(op, v, sel, cats, fault) ==
  [op |-> op, variant |-> v, sel |-> sel, categories |-> cats, fault |-> fault, ref_year |-> 0]
\* a fault strikes a stage that runs
CanStrike(fault, v) ==
  \/ fault = NoFault
  \/ /\ v \in VARIANTS \ DOMAIN data
     /\ ~isfile(disk, Csv(v))
     /\ fault.kind \in {"fetch", "body", "write"} => ~isfile(disk, Zip(fault.country))
     /\ fault.kind = "extract" => ~isfile(disk, Xml(fault.country, v))
Return(r, c) ==
  /\ data' = r.data
  /\ disk' = r.disk
  /\ io' = r.io
  /\ norm' = r.norm
  /\ result' = [error |-> r.error, table |-> r.table]
  /\ call' = c

\* NPPData(cache_dir): a new process over the same cache directory
Construct(order) ==
  /\ data' = [ppp |-> download_ppp(order)]
  /\ disk' = disk
  /\ io' = <<>>
  /\ norm' = NoNorm
  /\ result' = [error |-> "", table |-> <<>>]
  /\ call' = Call("__init__", "", Selection(<<>>, None, {}, {}), <<>>, NoFault)

DetailCall(v, sel, fault) ==
  /\ CanStrike(fault, v)
  /\ Return(detail(data, disk, v, sel.geog, sel.years, sel.ages, sel.genders, fault),
            Call("detail", v, sel, <<>>, fault))

AggregateCall(cats, v, sel, fault) ==
  /\ CanStrike(fault, v)
  /\ Return(aggregate(data, disk, cats, v, sel.geog, sel.years, sel.ages, sel.genders, fault),
            Call("aggregate", v, sel, cats, fault))

YearRatioCall(v, sel, ref_year, year, fault) ==
  /\ CanStrike(fault, v)
  /\ Return(year_ratio(data, disk, v, sel.geog, ref_year, year, sel.ages, sel.genders, fault),
            [Call("year_ratio", v, [sel EXCEPT !.years = Some({year})], <<>>, fault)
               EXCEPT !.ref_year = ref_year])

VariantRatioCall(v, sel, fault) ==
  /\ CanStrike(fault, v)
  /\ Return(variant_ratio(data, disk, v, sel.geog, sel.years, sel.ages, sel.genders, fault),
            Call("variant_ratio", v, sel, <<>>, fault))

Init ==
  /\ \E order \in ApiOrders : data = [ppp |-> download_ppp(order)]
  /\ disk \in InitialCaches
  /\ io = <<>>
  /\ norm = NoNorm
  /\ result = [error |-> "", table |-> <<>>]
  /\ call = Call("__init__", "", Selection(<<>>, None, {}, {}), <<>>, NoFault)

\* loads, failures and restarts
Next ==
  \/ \E order \in ApiOrders : Construct(order)
  \/ \E v \in QueryVariants \cup UnknownCodes, sel \in LoadSelections, fault \in Faults :
        DetailCall(v, sel, fault)
  \/ \E cats \in CategoryChoices, v \in QueryVariants, fault \in Faults :
        AggregateCall(cats, v, Selection(EW, Some({FirstYear}), DefaultAges, DefaultGenders), fault)
  \/ \E v \in QueryVariants \cup UnknownCodes, y \in Years, fault \in Faults :
        YearRatioCall(v, Selection(EW, None, DefaultAges, DefaultGenders), FirstYear, y, fault)
  \/ \E v \in QueryVariants, fault \in Faults :
        VariantRatioCall(v, Selection(UK, Some({FirstYear}), {0}, {1}), fault)
Spec == Init /\ [][Next]_vars

\* queries
QueryNext ==
  \/ \E order \in ApiOrders : Construct(order)
  \/ \E v \in QueryVariants, sel \in QuerySelections : DetailCall(v, sel, NoFault)
  \/ \E cats \in CategoryChoices, v \in QueryVariants, sel \in QuerySelections :
        AggregateCall(cats, v, sel, NoFault)
  \/ \E v \in QueryVariants, ref_year \in Years, y \in Years :
        YearRatioCall(v, Selection(EW, None, DefaultAges, DefaultGenders), ref_year, y, NoFault)
  \/ \E v \in QueryVariants, sel \in QuerySelections : VariantRatioCall(v, sel, NoFault)
QuerySpec == Init /\ [][QueryNext]_vars

(* ------------------------------ properties ----------------------------- *)
NonPrincipal == VARIANTS \ {"ppp"}
Key(row) == <<row.GEOGRAPHY_CODE.s, row.PROJECTED_YEAR_NAME.i, row.C_AGE.i, row.GENDER.i>>
Ops(log) == {log[n].op : n \in DOMAIN log}
AllWhole(d) == \A f \in DOMAIN d : d[f].whole
\* a cell's number, whether it is held as text or as an integer
ValueOf(cell) == IF cell.t = "int" THEN cell.i ELSE ParseInt(cell.s)
\* the labels the terminal bucket is made of: 90 to 104 and the two bands
IsTerminalLabel(s) ==
  \/ s \in {"105 - 109", "110 and over"}
  \/ IsNumeral(s) /\ ParseInt(s) >= TerminalAge /\ ParseInt(s) <= LastSingleAge
\* the sum of f over the rows of a frame that satisfy P
SumWhere(frame, P(_), f(_)) == SumSeq([r \in DOMAIN frame |-> IF P(frame[r]) THEN f(frame[r]) ELSE 0])
\* a row passes a selection
Wanted(row, sel, years) ==
  /\ \E n \in DOMAIN sel.geog : CODES[sel.geog[n]] = row.GEOGRAPHY_CODE.s
  /\ row.PROJECTED_YEAR_NAME.i \in years
  /\ row.C_AGE.i \in sel.ages
  /\ row.GENDER.i \in sel.genders
\* the positions of the rows of a frame that a selection keeps, in order
Positions(frame, sel, years) ==
  SelectSeq([r \in DOMAIN frame |-> r], LAMBDA r : Wanted(frame[r], sel, years))
\* the years a call selects: those given, or every year of the principal
\* table but its last
EarlierYears == {y \in YearsOf(data["ppp"]) : \E z \in YearsOf(data["ppp"]) : y < z}
YearsAsked == IF call.sel.years.none THEN EarlierYears ELSE call.sel.years.set
SameRatio(cell, n, d) == cell.t = "float" /\ cell.i * d = n * cell.d
Loads == {"detail", "aggregate", "year_ratio", "variant_ratio"}

\* C1: a call for a known non-principal variant whose npp_{v}.csv is not in
\* the cache, with no fault from the environment and no damaged file in the
\* cache, parses all four geographies and completes; afterwards npp_{v}.csv
\* exists and the store's table for v holds records of all four geographies.
C1_LoadCompletes ==
  [][ ( /\ call'.op = "detail"
        /\ call'.variant \in NonPrincipal
        /\ call'.variant \notin DOMAIN data
        /\ ~isfile(disk, Csv(call'.variant))
        /\ call'.fault = NoFault
        /\ AllWhole(disk) )
      => ( /\ result'.error = ""
           /\ \A n \in DOMAIN datasets : Event("parse", Xml(datasets[n], call'.variant)) \in Range(io')
           /\ isfile(disk', Csv(call'.variant))
           /\ \A n \in DOMAIN datasets :
                \E r \in DOMAIN data'[call'.variant] :
                   data'[call'.variant][r].GEOGRAPHY_CODE.s = CODES[datasets[n]] ) ]_vars

\* C2: after a detail call for v failed in a pipeline stage (the download, the
\* opening of an archive or the extraction raised), the next detail call for
\* v runs the load again,
\* and the files already in the cache are still there.
C2_FailedLoadIsRetried ==
  [][ ( /\ call.op = "detail"
        /\ result.error \in {"FetchError", "OSError", "BadZipFile", "ExtractError"}
        /\ call'.op = "detail"
        /\ call'.variant = call.variant )
      => ( /\ io' # <<>>
           /\ result'.error # "AttributeError"
           /\ \A f \in DOMAIN disk : f \in DOMAIN disk' ) ]_vars

\* C3: in every call, an archive is downloaded only if its file was absent, a
\* document is extracted only if its file was absent, and a load that finds
\* npp_{v}.csv downloads, extracts and parses nothing and leaves that file
\* as it was.
C3_StagesSkipped ==
  [][ /\ \A n \in DOMAIN io' :
           io'[n].op \in {"get", "extract"} => ~isfile(disk, io'[n].file)
      /\ ( call'.op \in Loads /\ isfile(disk, Csv(call'.variant)) )
           => ( /\ Ops(io') \subseteq {"read"}
                /\ disk' = disk ) ]_vars
\* a call found npp_{v}.csv in the cache: it read that file, did nothing else,
\* left the cache as it was and answered from the table read
C3_Witness ==
  /\ call.op \in Loads
  /\ call.variant \in NonPrincipal
  /\ isfile(disk, Csv(call.variant))
  /\ io = <<Event("read", Csv(call.variant))>>
  /\ result.error = ""
  /\ result.table # <<>>

\* C4: a detail call with a code outside the 15 known ones raises the
\* invalid-variant error, does no network or file operation, and leaves the
\* store and the cache as they were.
C4_InvalidVariant ==
  [][ ( call'.op = "detail" /\ call'.variant \notin VARIANTS )
      => ( /\ result'.error = "RuntimeError"
           /\ io' = <<>>
           /\ data' = data
           /\ disk' = disk ) ]_vars
\* an unknown code was refused while the cache held nothing for it
C4_Witness ==
  /\ call.op = "detail"
  /\ call.variant = "zzz"
  /\ result.error = "RuntimeError"
  /\ ~isfile(disk, Csv("zzz"))

\* C5: aggregate("GEOGRAPHY_CODE", "ppp", geographies, [y]) with the default
\* ages and genders returns one row per requested geography, whose value is
\* the sum of every record the principal table holds for that geography and
\* year.
C5_AggregateTotals ==
  ( /\ call.op = "aggregate"
    /\ call.variant = "ppp"
    /\ call.categories = <<"GEOGRAPHY_CODE">>
    /\ ~call.sel.years.none
    /\ Cardinality(call.sel.years.set) = 1
    /\ call.sel.ages = DefaultAges
    /\ call.sel.genders = DefaultGenders
    /\ result.error = "" )
  => ( /\ Len(result.table) = Len(call.sel.geog)
       /\ \A n \in DOMAIN call.sel.geog :
            \E r \in DOMAIN result.table :
               /\ result.table[r].GEOGRAPHY_CODE.s = CODES[call.sel.geog[n]]
               /\ result.table[r].OBS_VALUE.i =
                    SumWhere(data["ppp"],
                             LAMBDA row : /\ row.GEOGRAPHY_CODE.s = CODES[call.sel.geog[n]]
                                          /\ row.PROJECTED_YEAR_NAME.i \in call.sel.years.set,
                             LAMBDA row : row.OBS_VALUE.i) )

\* C6: in every table of the store, for each geography, year and gender the
\* ages present are the ages up to 90 of the published age axis, each once:
\* none above 90, none missing, none twice.
C6_AgesComplete ==
  \A v \in DOMAIN data :
    \A r \in DOMAIN data[v] :
      /\ data[v][r].C_AGE.i <= TerminalAge
      /\ \A q \in DOMAIN data[v] : Key(data[v][q]) = Key(data[v][r]) => q = r
      /\ \A n \in SampledAges \cap (0 .. TerminalAge) :
           \E q \in DOMAIN data[v] :
              Key(data[v][q]) = <<data[v][r].GEOGRAPHY_CODE.s, data[v][r].PROJECTED_YEAR_NAME.i,
                                  n, data[v][r].GENDER.i>>

\* C7: after the normaliser ran, for every gender and year there is one
\* age-90 record, whose value is the sum of the source values labelled 90 to
\* 104, "105 - 109" and "110 and over"; no other record carries one of those
\* labels; the records below 90 are the source's, in order; and the total
\* over all ages is the source's.
C7_TerminalBucket ==
  norm.ran =>
    LET src == norm.before
        out == norm.after
        low(frame) == SelectSeq(frame, LAMBDA row : ~IsTerminalLabel(row.C_AGE.s))
        same(x, y) == /\ x.GENDER = y.GENDER
                      /\ x.C_AGE = y.C_AGE
                      /\ x.PROJECTED_YEAR_NAME = y.PROJECTED_YEAR_NAME
                      /\ x.OBS_VALUE = y.OBS_VALUE
        group(row, g, y) == ValueOf(row.GENDER) = g /\ ValueOf(row.PROJECTED_YEAR_NAME) = y
    IN  /\ Len(low(out)) = Len(low(src))
        /\ \A r \in DOMAIN low(src) : same(low(out)[r], low(src)[r])
        /\ \A r \in DOMAIN out : IsTerminalLabel(out[r].C_AGE.s) => out[r].C_AGE.s = ToString(TerminalAge)
        /\ \A r \in DOMAIN src :
             LET g == ValueOf(src[r].GENDER)
                 y == ValueOf(src[r].PROJECTED_YEAR_NAME)
                 bucket == SelectSeq(out, LAMBDA row : group(row, g, y) /\ row.C_AGE.s = ToString(TerminalAge))
             IN  /\ Len(bucket) = 1
                 /\ ValueOf(bucket[1].OBS_VALUE) =
                      SumWhere(src, LAMBDA row : group(row, g, y) /\ IsTerminalLabel(row.C_AGE.s),
                               LAMBDA row : ValueOf(row.OBS_VALUE))
                 /\ SumWhere(out, LAMBDA row : group(row, g, y), LAMBDA row : ValueOf(row.OBS_VALUE)) =
                      SumWhere(src, LAMBDA row : group(row, g, y), LAMBDA row : ValueOf(row.OBS_VALUE))
\* the normaliser ran on a sheet that holds single ages above 90 and both bands
C7_Witness ==
  /\ norm.ran
  /\ \A label \in {ToString(TerminalAge), ToString(LastSingleAge), "105 - 109", "110 and over"} :
       \E r \in DOMAIN norm.before : norm.before[r].C_AGE.s = label
  /\ \E r \in DOMAIN norm.after : norm.after[r].C_AGE.s = ToString(TerminalAge)

\* C8 as stated: for a loaded variant, every row variant_ratio returns carries
\* the key of a record of the variant's table and the value of that record
\* divided by the value of the principal record with the same key.
C8_RatioByKey ==
  ( call.op = "variant_ratio" /\ result.error = "" )
  => \A r \in DOMAIN result.table :
       \E n \in DOMAIN data[call.variant], d \in DOMAIN data["ppp"] :
          /\ Key(data[call.variant][n]) = Key(result.table[r])
          /\ Key(data["ppp"][d]) = Key(result.table[r])
          /\ SameRatio(result.table[r].OBS_VALUE,
                       data[call.variant][n].OBS_VALUE.i, data["ppp"][d].OBS_VALUE.i)

\* C8 amended: row i of variant_ratio carries the key of the i-th record the
\* selection keeps of the variant's table, and the value of that record
\* divided by the value of the i-th record the selection keeps of the
\* principal table (not a number when the principal has no i-th record).
C8_RatioByPosition ==
  ( call.op = "variant_ratio" /\ result.error = "" )
  => LET num == Positions(data[call.variant], call.sel, YearsAsked)
         ref == Positions(data["ppp"], call.sel, YearsAsked)
     IN  /\ Len(result.table) = Len(num)
         /\ \A r \in DOMAIN result.table :
              /\ Key(result.table[r]) = Key(data[call.variant][num[r]])
              /\ IF r \in DOMAIN ref
                 THEN SameRatio(result.table[r].OBS_VALUE,
                                data[call.variant][num[r]].OBS_VALUE.i,
                                data["ppp"][ref[r]].OBS_VALUE.i)
                 ELSE result.table[r].OBS_VALUE.t = "nan"
\* a ratio of a loaded non-principal variant in which some row was divided by
\* the principal record of another key
C8_Witness ==
  /\ call.op = "variant_ratio"
  /\ call.variant \in NonPrincipal
  /\ result.error = ""
  /\ LET ref == Positions(data["ppp"], call.sel, YearsAsked)
     IN  \E r \in DOMAIN result.table :
            r \in DOMAIN ref /\ Key(data["ppp"][ref[r]]) # Key(result.table[r])

\* C9: a detail call without years returns exactly the records of the
\* variant's table that pass the other filters and whose year is a year of
\* the principal table other than its last.
C9_DefaultYears ==
  ( call.op = "detail" /\ call.sel.years.none /\ result.error = "" )
  => /\ \A r \in DOMAIN result.table :
          /\ result.table[r].PROJECTED_YEAR_NAME.i < max_year(data)
          /\ result.table[r].PROJECTED_YEAR_NAME.i >= min_year(data)
     /\ \A n \in DOMAIN data[call.variant] :
          ( /\ Wanted(data[call.variant][n], call.sel, YearsOf(data[call.variant]))
            /\ data[call.variant][n].PROJECTED_YEAR_NAME.i \in YearsOf(data["ppp"])
            /\ data[call.variant][n].PROJECTED_YEAR_NAME.i # max_year(data) )
          <=> \E r \in DOMAIN result.table : result.table[r] = data[call.variant][n]
\* a detail call without years on a table that holds records of the final
\* year which pass the other filters, and records of an earlier year
C9_Witness ==
  /\ call.op = "detail"
  /\ call.sel.years.none
  /\ result.error = ""
  /\ result.table # <<>>
  /\ \E n \in DOMAIN data[call.variant] :
       /\ Wanted(data[call.variant][n], call.sel, {max_year(data)})

\* C10: every file of the cache is the complete output of a stage that
\* finished.
C10_ArtifactsComplete == AllWhole(disk)
====
